---------------------------- MODULE Spec2Model ----------------------------
(***************************************************************************)
(* Model of the nakama-kpf push adapter: the PushClient with its two       *)
(* lazily constructed provider clients (push_client.go) and the            *)
(* RpcSendNotification handler.  Host goroutines call the handler and the  *)
(* PushClient methods; every read and write of the cached client fields    *)
(* is a step of its own, so that calls interleave as the code allows.      *)
(***************************************************************************)
EXTENDS Integers, Sequences, FiniteSets, TLC

\* Number of host goroutines that call into one PushClient.
NumProcs == 2
\* Longest list of user_device rows a user has.
MaxRows == 2

Procs == 1..NumProcs
Providers == {"apns", "fcm"}

VARIABLES
    serial,      \* TRUE: the host runs one call at a time (non-overlapping sends)
    apnsClient,  \* PushClient.apnsClient
    fcmClient,   \* PushClient.fcmClient
    built,       \* provider -> number of clients constructed so far
    call         \* goroutine -> frame of the call it is running

vars == <<serial, apnsClient, fcmClient, built, call>>

---------------------------------------------------------------------------
\* Errors.  Error() of a PushNotificationDeliveryFailed is that of its Err.

Err(kind, msg) == [kind |-> kind, msg |-> msg, inner |-> ""]
Nil == Err("nil", "")
ErrBadInput == Err("hiro.ErrBadInput", "bad input")
ErrNoRows == Err("sql.ErrNoRows", "sql: no rows in result set")
ErrUserNotFound == Err("errorString", "user not found")
ErrDriver == Err("driver", "connection refused")
ErrAuthKey == Err("AuthKeyFromFile", "open key file")
ErrNewApp == Err("firebase.NewApp", "credentials file")
ErrMessaging == Err("app.Messaging", "project id")
ErrTransport == Err("transport", "connection reset")

PushNotificationDeliveryFailed(e) ==
    [kind |-> "PushNotificationDeliveryFailed", msg |-> e.msg, inner |-> e.kind]

---------------------------------------------------------------------------
\* JSON payloads and json.Unmarshal into a NotificationRequest.

Keys == {"user_id", "device_token", "title", "body", "image_url",
         "external_id", "is_ios"}
StringKeys == Keys \ {"is_ios"}

JStr(s) == [t |-> "string", s |-> s, b |-> FALSE]
JBool(b) == [t |-> "bool", s |-> "", b |-> b]
JNull == [t |-> "null", s |-> "", b |-> FALSE]
JNum == [t |-> "number", s |-> "1", b |-> FALSE]
Absent == [t |-> "absent", s |-> "", b |-> FALSE]

NoMembers == [k \in Keys |-> Absent]
Object(m) == [form |-> "object", members |-> m]

PayloadAndroid ==
    Object([user_id |-> JStr("u1"), device_token |-> JStr("tok-and"),
            title |-> JStr("Hello"), body |-> JStr("world"),
            image_url |-> JStr("http://img"), external_id |-> JStr("x0"),
            is_ios |-> JBool(FALSE)])
PayloadExampleIOS ==
    Object([user_id |-> JStr("u1"), device_token |-> JStr("tok-ios"),
            title |-> JStr("Hi"), body |-> JStr("there"),
            image_url |-> JStr(""), external_id |-> JStr("x1"),
            is_ios |-> JBool(TRUE)])
PayloadTokenOnly ==
    Object([NoMembers EXCEPT !["device_token"] = JStr("tok-and")])
PayloadNullToken ==
    Object([NoMembers EXCEPT !["device_token"] = JNull,
                             !["title"] = JStr("Hi"),
                             !["is_ios"] = JBool(TRUE)])
PayloadIsIosString ==
    Object([NoMembers EXCEPT !["device_token"] = JStr("tok-ios"),
                             !["is_ios"] = JStr("true")])
PayloadTitleNumber ==
    Object([NoMembers EXCEPT !["device_token"] = JStr("tok-and"),
                             !["title"] = JNum])
PayloadNull == [form |-> "null", members |-> NoMembers]
PayloadArray == [form |-> "array", members |-> NoMembers]
PayloadMalformed == [form |-> "malformed", members |-> NoMembers]
NoPayload == [form |-> "none", members |-> NoMembers]

Payloads == {PayloadAndroid, PayloadExampleIOS, PayloadTokenOnly,
             PayloadNullToken, PayloadIsIosString, PayloadTitleNumber,
             PayloadNull, PayloadArray, PayloadMalformed}

ZeroRequest ==
    [UserID |-> "", DeviceToken |-> "", Title |-> "", Body |-> "",
     ImageURL |-> "", ExternalID |-> "", IsIOS |-> FALSE]

\* A member decodes into a string field: absent and null leave the zero value.
StringField(v) == IF v.t = "string" THEN v.s ELSE ""
BoolField(v) == IF v.t = "bool" THEN v.b ELSE FALSE
FieldMismatch(m) ==
    \/ \E k \in StringKeys : m[k].t \in {"bool", "number"}
    \/ m["is_ios"].t \in {"string", "number"}

Unmarshal(p) ==
    IF p.form = "malformed" THEN [err |-> TRUE, req |-> ZeroRequest]
    ELSE IF p.form = "null" THEN [err |-> FALSE, req |-> ZeroRequest]
    ELSE IF p.form # "object" THEN [err |-> TRUE, req |-> ZeroRequest]
    ELSE [err |-> FieldMismatch(p.members),
          req |-> [UserID |-> StringField(p.members["user_id"]),
                   DeviceToken |-> StringField(p.members["device_token"]),
                   Title |-> StringField(p.members["title"]),
                   Body |-> StringField(p.members["body"]),
                   ImageURL |-> StringField(p.members["image_url"]),
                   ExternalID |-> StringField(p.members["external_id"]),
                   IsIOS |-> BoolField(p.members["is_ios"])]]

\* A decoder that reports syntax errors only and skips what does not fit.
Unmarshal_Lenient(p) == [Unmarshal(p) EXCEPT !.err = (p.form = "malformed")]

\* What the handler decodes: json.Unmarshal of the payload.
Decode(p) == Unmarshal(p)

---------------------------------------------------------------------------
\* The user_device table.

NullString(valid, s) == [Valid |-> valid, String |-> s]
AndroidTokens == {NullString(FALSE, ""), NullString(TRUE, ""),
                  NullString(TRUE, "tok-and")}
IosTokens == {NullString(FALSE, ""), NullString(TRUE, ""),
              NullString(TRUE, "tok-ios")}
TokenPairs == AndroidTokens \X IosTokens

Users == {"u1"}

DeviceRow(i, pair) ==
    [id |-> ToString(i), push_token_android |-> pair[1],
     push_token_ios |-> pair[2]]
NoRow == DeviceRow(0, <<NullString(FALSE, ""), NullString(FALSE, "")>>)

RowLists ==
    UNION {{[i \in 1..n |-> DeviceRow(i, f[i])] : f \in [1..n -> TokenPairs]} :
           n \in 0..MaxRows}

BothTokens == <<NullString(TRUE, "tok-and"), NullString(TRUE, "tok-ios")>>
IosOnly == <<NullString(FALSE, ""), NullString(TRUE, "tok-ios")>>
FixedTables == {<<>>, <<DeviceRow(1, BothTokens), DeviceRow(2, IosOnly)>>}

---------------------------------------------------------------------------
\* Client handles and call frames.

Handle(n, g) == [id |-> n, by |-> g]
NilHandle == Handle(0, 0)

Params(title, body, imageURL, externalID) ==
    [title |-> title, body |-> body, imageURL |-> imageURL,
     externalID |-> externalID]
ZeroParams == Params("", "", "", "")
DirectParams == {Params("Hi", "there", "", "x1")}
DirectTokens == {"", "tok-dev"}

responseJSON == "{\"message\": \"Push notification sent successfully\"}"

\* What the provider answered to one submit.
Answer(err, sent, reason) == [err |-> err, sent |-> sent, reason |-> reason]
NoAnswer == Answer(Nil, FALSE, "")
APNSAnswers == {Answer(Nil, TRUE, ""), Answer(ErrTransport, FALSE, ""),
                Answer(Nil, FALSE, "BadDeviceToken")}
FCMAnswers == {Answer(Nil, TRUE, ""), Answer(ErrTransport, FALSE, "")}

IdleFrame ==
    [op |-> "idle", pc |-> "idle", payload |-> NoPayload, userID |-> "",
     params |-> ZeroParams, deviceToken |-> "", rows |-> <<>>, row |-> NoRow,
     qerr |-> Nil, found |-> <<>>, seen |-> [p \in Providers |-> 0],
     log |-> <<>>, resp |-> "", err |-> Nil]

\* The host starts a call of g: any time, or only when no other call runs.
CanStart(g) ==
    /\ call[g].pc = "idle"
    /\ serial => \A h \in Procs : call[h].pc = "idle"


---------------------------------------------------------------------------
\* Decisions of the code, one operator per condition or result mapping.

Dispatch_Swapped(req) == IF req.IsIOS THEN "fcm" ELSE "apns"

\* RpcSendNotification: the branch on req.IsIOS.
Dispatch(req) == IF ~req.IsIOS THEN "fcm" ELSE "apns"

\* RpcSendNotification: what the handler returns after the provider call.
RpcResult(err) ==
    IF err # Nil THEN [resp |-> "", err |-> err]
    ELSE [resp |-> responseJSON, err |-> Nil]

\* RpcSendNotification: what the handler returns when Unmarshal fails.
RpcBadInput == [resp |-> "", err |-> ErrBadInput]

NeedsInit_Always(h) == TRUE

\* getAPNSClient, getFCMClient: the check of the cached field.
NeedsInit(h) == h = NilHandle

GetClientErr_Wrapped(err) == PushNotificationDeliveryFailed(err)

\* SendApplePush, SendFirebasePush: the error of the client getter is returned.
GetClientErr(err) == err

SendApplePushResult_TransportAsIs(a) ==
    IF a.err # Nil THEN a.err
    ELSE IF ~a.sent
         THEN PushNotificationDeliveryFailed(Err("errorString", a.reason))
         ELSE Nil

\* SendApplePush: the result of PushWithContext mapped to the returned error.
SendApplePushResult(a) ==
    IF a.err # Nil THEN PushNotificationDeliveryFailed(a.err)
    ELSE IF ~a.sent
         THEN PushNotificationDeliveryFailed(Err("errorString", a.reason))
         ELSE Nil

\* SendFirebasePush: the result of Send mapped to the returned error.
SendFirebasePushResult(a) ==
    IF a.err # Nil THEN PushNotificationDeliveryFailed(a.err) ELSE Nil

\* SendUserPush: the error of QueryContext mapped to the returned error.
QueryErrResult(err) == IF err = ErrNoRows THEN ErrUserNotFound ELSE err

TokenPresent_ValidOnly(t) == t.Valid

\* SendUserPush: a token column is used when it is not NULL and not empty.
TokenPresent(t) == t.Valid /\ t.String # ""

AbortsFanOut_Never(err) == FALSE

\* SendUserPush: an error of a provider send returns from the loop.
AbortsFanOut(err) == err # Nil

\* rows.Scan into (string, NullString, NullString): a NULL id does not convert.
\* The rows of user_device carry their id (DeviceRow), so no row here fails.
ScanFails(row) == row.id = ""

\* A goroutine reads a cached handle.  Its own construction, and one stored
\* before its call began (known counts those), it sees whole.  A handle that
\* another goroutine stored while this call was running reaches it through
\* the unsynchronised field only: it may see the pointer before the contents.
Visible(h, g, known) == IF h.by = g \/ h.id <= known THEN {TRUE} ELSE BOOLEAN

SendEntry(provider, f, h, visible, submitted, answer, err) ==
    [provider |-> provider, deviceToken |-> f.deviceToken, params |-> f.params,
     handle |-> h, visible |-> visible, submitted |-> submitted,
     answer |-> answer, err |-> err]

\* The frame of a call after one of its provider sends returned.
AfterSend(f, entry) ==
    LET logged == [f EXCEPT !.log = Append(@, entry)] IN
    IF f.op = "RpcSendNotification"
    THEN [logged EXCEPT !.pc = "done",
                        !.resp = RpcResult(entry.err).resp,
                        !.err = RpcResult(entry.err).err]
    ELSE IF f.op = "SendUserPush"
    THEN IF AbortsFanOut(entry.err)
         THEN [logged EXCEPT !.pc = "done", !.err = entry.err]
         ELSE [logged EXCEPT !.pc = IF entry.provider = "fcm"
                                    THEN "rowIos" ELSE "loop"]
    ELSE [logged EXCEPT !.pc = "done", !.err = entry.err]

---------------------------------------------------------------------------
\* Calls the host makes.

RpcSendNotification(g, p) ==
    /\ CanStart(g)
    /\ LET u == Decode(p)
           f == [IdleFrame EXCEPT !.op = "RpcSendNotification", !.payload = p,
                                  !.seen = built]
       IN call' = [call EXCEPT ![g] =
            IF u.err
            THEN [f EXCEPT !.pc = "done", !.resp = RpcBadInput.resp,
                           !.err = RpcBadInput.err]
            ELSE [f EXCEPT !.pc = IF Dispatch(u.req) = "fcm"
                                  THEN "getFCM" ELSE "getAPNS",
                           !.deviceToken = u.req.DeviceToken,
                           !.params = Params(u.req.Title, u.req.Body,
                                             u.req.ImageURL, u.req.ExternalID)]]
    /\ UNCHANGED <<serial, apnsClient, fcmClient, built>>

CallSendApplePush(g, tok, ps) ==
    /\ CanStart(g)
    /\ call' = [call EXCEPT ![g] =
            [IdleFrame EXCEPT !.op = "SendApplePush", !.pc = "getAPNS",
                              !.seen = built,
                              !.deviceToken = tok, !.params = ps]]
    /\ UNCHANGED <<serial, apnsClient, fcmClient, built>>

CallSendFirebasePush(g, tok, ps) ==
    /\ CanStart(g)
    /\ call' = [call EXCEPT ![g] =
            [IdleFrame EXCEPT !.op = "SendFirebasePush", !.pc = "getFCM",
                              !.seen = built,
                              !.deviceToken = tok, !.params = ps]]
    /\ UNCHANGED <<serial, apnsClient, fcmClient, built>>

\* What QueryContext returns as its error: nil, or a failure of the driver.
QueryErrors == {Nil, ErrDriver}

\* What user_device may hold for the user: every list of rows within the
\* bound when calls run one at a time, two lists when they interleave.
Tables == IF serial THEN RowLists ELSE FixedTables

\* SendUserPush up to the loop: the query, which fails with qerr or yields the
\* rows the table holds for the user.
SendUserPush(g) ==
    /\ CanStart(g)
    /\ \E userID \in Users, ps \in DirectParams, qerr \in QueryErrors,
          found \in Tables :
        LET f == [IdleFrame EXCEPT !.op = "SendUserPush", !.userID = userID,
                                  !.params = ps, !.seen = built]
        IN call' = [call EXCEPT ![g] =
            IF qerr # Nil
            THEN [f EXCEPT !.pc = "done", !.qerr = qerr,
                           !.err = QueryErrResult(qerr)]
            ELSE [f EXCEPT !.pc = "loop", !.rows = found, !.found = found]]
    /\ UNCHANGED <<serial, apnsClient, fcmClient, built>>

\* rows.Next() and rows.Scan.
SendUserPushNext(g) ==
    /\ call[g].pc = "loop"
    /\ LET f == call[g] IN
       call' = [call EXCEPT ![g] =
            IF f.rows = <<>> THEN [f EXCEPT !.pc = "done", !.err = Nil]
            ELSE IF ScanFails(Head(f.rows))
            THEN [f EXCEPT !.pc = "done", !.err = Err("Scan", "converting NULL")]
            ELSE [f EXCEPT !.pc = "rowAndroid", !.row = Head(f.rows),
                           !.rows = Tail(f.rows)]]
    /\ UNCHANGED <<serial, apnsClient, fcmClient, built>>

SendUserPushAndroid(g) ==
    /\ call[g].pc = "rowAndroid"
    /\ LET f == call[g] IN
       call' = [call EXCEPT ![g] =
            IF TokenPresent(f.row.push_token_android)
            THEN [f EXCEPT !.pc = "getFCM",
                           !.deviceToken = f.row.push_token_android.String]
            ELSE [f EXCEPT !.pc = "rowIos"]]
    /\ UNCHANGED <<serial, apnsClient, fcmClient, built>>

SendUserPushIos(g) ==
    /\ call[g].pc = "rowIos"
    /\ LET f == call[g] IN
       call' = [call EXCEPT ![g] =
            IF TokenPresent(f.row.push_token_ios)
            THEN [f EXCEPT !.pc = "getAPNS",
                           !.deviceToken = f.row.push_token_ios.String]
            ELSE [f EXCEPT !.pc = "loop"]]
    /\ UNCHANGED <<serial, apnsClient, fcmClient, built>>

---------------------------------------------------------------------------
\* The provider sends.

\* getAPNSClient: if c.apnsClient == nil
getAPNSClientCheck(g) ==
    /\ call[g].pc = "getAPNS"
    /\ call' = [call EXCEPT ![g].pc =
            IF NeedsInit(apnsClient) THEN "newAPNS" ELSE "pushAPNS"]
    /\ UNCHANGED <<serial, apnsClient, fcmClient, built>>

\* getAPNSClient: the key file is loaded, the client built and stored, or the
\* load fails and SendApplePush returns the error.
getAPNSClientInit(g) ==
    /\ call[g].pc = "newAPNS"
    /\ \E keyErr \in {Nil, ErrAuthKey} :
        IF keyErr # Nil
        THEN /\ call' = [call EXCEPT ![g] = AfterSend(call[g],
                    SendEntry("apns", call[g], NilHandle, FALSE, FALSE,
                              NoAnswer, GetClientErr(keyErr)))]
             /\ UNCHANGED <<apnsClient, built>>
        ELSE /\ apnsClient' = Handle(built["apns"] + 1, g)
             /\ built' = [built EXCEPT !["apns"] = @ + 1]
             /\ call' = [call EXCEPT ![g].pc = "pushAPNS"]
    /\ UNCHANGED <<serial, fcmClient>>

\* getAPNSClient: return c.apnsClient, then SendApplePush submits through it.
SendApplePush(g) ==
    /\ call[g].pc = "pushAPNS"
    /\ \E a \in APNSAnswers, v \in Visible(apnsClient, g, call[g].seen["apns"]) :
        call' = [call EXCEPT ![g] = AfterSend(call[g],
            SendEntry("apns", call[g], apnsClient, v, TRUE, a,
                      SendApplePushResult(a)))]
    /\ UNCHANGED <<serial, apnsClient, fcmClient, built>>

\* getFCMClient: if c.fcmClient == nil
getFCMClientCheck(g) ==
    /\ call[g].pc = "getFCM"
    /\ call' = [call EXCEPT ![g].pc =
            IF NeedsInit(fcmClient) THEN "newFCM" ELSE "sendFCM"]
    /\ UNCHANGED <<serial, apnsClient, fcmClient, built>>

\* getFCMClient: the app and its messaging client are created and the client
\* stored, or one of the two fails and SendFirebasePush returns the error.
getFCMClientInit(g) ==
    /\ call[g].pc = "newFCM"
    /\ \E appErr \in {Nil, ErrNewApp, ErrMessaging} :
        IF appErr # Nil
        THEN /\ call' = [call EXCEPT ![g] = AfterSend(call[g],
                    SendEntry("fcm", call[g], NilHandle, FALSE, FALSE,
                              NoAnswer, GetClientErr(appErr)))]
             /\ UNCHANGED <<fcmClient, built>>
        ELSE /\ fcmClient' = Handle(built["fcm"] + 1, g)
             /\ built' = [built EXCEPT !["fcm"] = @ + 1]
             /\ call' = [call EXCEPT ![g].pc = "sendFCM"]
    /\ UNCHANGED <<serial, apnsClient>>

\* getFCMClient: return c.fcmClient, then SendFirebasePush sends through it.
SendFirebasePush(g) ==
    /\ call[g].pc = "sendFCM"
    /\ \E a \in FCMAnswers, v \in Visible(fcmClient, g, call[g].seen["fcm"]) :
        call' = [call EXCEPT ![g] = AfterSend(call[g],
            SendEntry("fcm", call[g], fcmClient, v, TRUE, a,
                      SendFirebasePushResult(a)))]
    /\ UNCHANGED <<serial, apnsClient, fcmClient, built>>

\* The call returns to the host.
Return(g) ==
    /\ call[g].pc = "done"
    /\ call' = [call EXCEPT ![g] = IdleFrame]
    /\ UNCHANGED <<serial, apnsClient, fcmClient, built>>

---------------------------------------------------------------------------
\* NewPushClient: both clients nil.
InitClient ==
    /\ apnsClient = NilHandle
    /\ fcmClient = NilHandle
    /\ built = [p \in Providers |-> 0]
    /\ call = [g \in Procs |-> IdleFrame]

\* Calls from several goroutines, interleaved.
Init ==
    /\ serial = FALSE
    /\ InitClient

\* Calls one at a time, over every device table within the bounds.
InitSeq ==
    /\ serial = TRUE
    /\ InitClient


Next ==
    \E g \in Procs :
        \/ \E p \in Payloads : RpcSendNotification(g, p)
        \/ \E tok \in DirectTokens, ps \in DirectParams :
                CallSendApplePush(g, tok, ps)
        \/ \E tok \in DirectTokens, ps \in DirectParams :
                CallSendFirebasePush(g, tok, ps)
        \/ SendUserPush(g)
        \/ SendUserPushNext(g)
        \/ SendUserPushAndroid(g)
        \/ SendUserPushIos(g)
        \/ getAPNSClientCheck(g)
        \/ getAPNSClientInit(g)
        \/ SendApplePush(g)
        \/ getFCMClientCheck(g)
        \/ getFCMClientInit(g)
        \/ SendFirebasePush(g)
        \/ Return(g)

Spec == Init /\ [][Next]_vars
SpecSeq == InitSeq /\ [][Next]_vars

---------------------------------------------------------------------------
\* Properties.

Done(g, op) == call[g].pc = "done" /\ call[g].op = op
Cached(p) == IF p = "apns" THEN apnsClient ELSE fcmClient

\* The payloads of the model that json.Unmarshal accepts, and those it rejects.
ValidPayloads == {PayloadAndroid, PayloadExampleIOS, PayloadTokenOnly,
                  PayloadNullToken, PayloadNull}
BadPayloads == {PayloadIsIosString, PayloadTitleNumber, PayloadArray,
                PayloadMalformed}

\* The request each accepted payload stands for.
RequestOf(p) ==
    IF p = PayloadAndroid
    THEN [DeviceToken |-> "tok-and", Title |-> "Hello", Body |-> "world",
          ImageURL |-> "http://img", ExternalID |-> "x0", IsIOS |-> FALSE]
    ELSE IF p = PayloadExampleIOS
    THEN [DeviceToken |-> "tok-ios", Title |-> "Hi", Body |-> "there",
          ImageURL |-> "", ExternalID |-> "x1", IsIOS |-> TRUE]
    ELSE IF p = PayloadTokenOnly
    THEN [DeviceToken |-> "tok-and", Title |-> "", Body |-> "",
          ImageURL |-> "", ExternalID |-> "", IsIOS |-> FALSE]
    ELSE IF p = PayloadNullToken
    THEN [DeviceToken |-> "", Title |-> "Hi", Body |-> "",
          ImageURL |-> "", ExternalID |-> "", IsIOS |-> TRUE]
    ELSE [DeviceToken |-> "", Title |-> "", Body |-> "",
          ImageURL |-> "", ExternalID |-> "", IsIOS |-> FALSE]

\* C1: a handler call on a payload that parses invokes one provider send and
\* no more: SendFirebasePush when is_ios is false, SendApplePush when it is
\* true, with the request's device token, title, body, image URL and external
\* id; when that send succeeds the handler returns the success literal and no
\* error.
C1_HandlerDispatch ==
    \A g \in Procs :
        (call[g].op = "RpcSendNotification" /\ call[g].payload \in ValidPayloads) =>
            LET f == call[g]
                req == RequestOf(f.payload)
            IN /\ Len(f.log) <= 1
               /\ f.pc = "done" => Len(f.log) = 1
               /\ \A i \in 1..Len(f.log) :
                    /\ f.log[i].provider = (IF req.IsIOS THEN "apns" ELSE "fcm")
                    /\ f.log[i].deviceToken = req.DeviceToken
                    /\ f.log[i].params = Params(req.Title, req.Body,
                                                req.ImageURL, req.ExternalID)
                    /\ f.pc = "done"
                    /\ f.err = f.log[i].err
                    /\ f.log[i].err = Nil =>
                            f.resp = responseJSON /\ f.err = Nil
                    /\ f.log[i].err # Nil => f.resp = ""

C1_Witness ==
    \E g \in Procs :
        /\ Done(g, "RpcSendNotification")
        /\ call[g].payload = PayloadExampleIOS
        /\ Len(call[g].log) = 1
        /\ call[g].log[1].submitted
        /\ call[g].resp = responseJSON

\* C2: a handler call on a payload that fails to parse returns the bad-input
\* error with an empty response, invokes no provider send, and leaves both
\* cached client fields as they were (nothing is constructed).
C2_BadInput ==
    [][\A g \in Procs :
        (call[g].pc = "idle" /\ call'[g].op = "RpcSendNotification"
            /\ call'[g].payload \in BadPayloads) =>
            /\ call'[g].pc = "done"
            /\ call'[g].resp = ""
            /\ call'[g].err = ErrBadInput
            /\ call'[g].log = <<>>
            /\ apnsClient' = apnsClient
            /\ fcmClient' = fcmClient
            /\ built' = built]_vars

C2_Witness ==
    \E g \in Procs :
        /\ Done(g, "RpcSendNotification")
        /\ call[g].payload = PayloadArray
        /\ call[g].err = ErrBadInput
        /\ call[g].log = <<>>
        /\ fcmClient # NilHandle
        /\ apnsClient = NilHandle

\* C3: SendUserPush for a user with no row in the device-token store returns
\* the "user not found" error and invokes no provider send.
C3_UserNotFound ==
    \A g \in Procs :
        (Done(g, "SendUserPush") /\ call[g].qerr = Nil
            /\ call[g].found = <<>>) =>
            /\ call[g].err = ErrUserNotFound
            /\ call[g].log = <<>>

\* The sends SendUserPush owes for a list of rows, in order: per row the
\* Android token if it is not NULL and not empty, then the iOS token likewise.
RECURSIVE ExpectedSends(_)
ExpectedSends(rows) ==
    IF rows = <<>> THEN <<>>
    ELSE LET r == Head(rows)
             a == IF r.push_token_android.Valid /\ r.push_token_android.String # ""
                  THEN <<<<"fcm", r.push_token_android.String>>>> ELSE <<>>
             i == IF r.push_token_ios.Valid /\ r.push_token_ios.String # ""
                  THEN <<<<"apns", r.push_token_ios.String>>>> ELSE <<>>
         IN a \o i \o ExpectedSends(Tail(rows))

Sends(log) == [i \in 1..Len(log) |-> <<log[i].provider, log[i].deviceToken>>]
IsPrefix(s, t) == Len(s) <= Len(t) /\ \A i \in 1..Len(s) : s[i] = t[i]
AllSucceeded(log) == \A i \in 1..Len(log) : log[i].err = Nil

\* C4: when every provider call succeeds, SendUserPush issues one
\* SendFirebasePush per row with a non-NULL, non-empty Android token and one
\* SendApplePush per row with a non-NULL, non-empty iOS token, none for a NULL
\* or empty token, and returns no error.
C4_FanOut ==
    \A g \in Procs :
        call[g].op = "SendUserPush" =>
            LET f == call[g] IN
            /\ IsPrefix(Sends(f.log), ExpectedSends(f.found))
            /\ \A i \in 1..Len(f.log) : f.log[i].params = f.params
            /\ (f.pc = "done" /\ f.qerr = Nil /\ AllSucceeded(f.log)) =>
                    /\ Sends(f.log) = ExpectedSends(f.found)
                    /\ f.err = Nil

C4_Witness ==
    \E g \in Procs :
        /\ Done(g, "SendUserPush")
        /\ Len(call[g].found) = 2
        /\ call[g].found[1].push_token_android = NullString(TRUE, "")
        /\ call[g].found[1].push_token_ios = NullString(FALSE, "")
        /\ call[g].found[2].push_token_android = NullString(TRUE, "tok-and")
        /\ call[g].found[2].push_token_ios = NullString(TRUE, "tok-ios")
        /\ Len(call[g].log) = 2
        /\ AllSucceeded(call[g].log)
        /\ call[g].err = Nil

\* C5: in SendUserPush the first provider send that fails ends the fan-out:
\* no send follows it, and SendUserPush returns that send's error.
C5_FirstFailureAborts ==
    \A g \in Procs :
        call[g].op = "SendUserPush" =>
            \A i \in 1..Len(call[g].log) :
                call[g].log[i].err # Nil =>
                    /\ i = Len(call[g].log)
                    /\ call[g].pc = "done"
                    /\ call[g].err = call[g].log[i].err

C5_Witness ==
    \E g \in Procs :
        /\ Done(g, "SendUserPush")
        /\ Len(call[g].log) = 2
        /\ call[g].log[1].err = Nil
        /\ call[g].log[2].provider = "fcm"
        /\ call[g].log[2].err # Nil
        /\ TokenPresent(call[g].row.push_token_ios)
        /\ call[g].rows = <<>>
        /\ Len(call[g].found) = 2

\* C6, as stated: SendApplePush returns a transport error of the submit as it
\* is, not wrapped, and a response that was not sent as a
\* PushNotificationDeliveryFailed carrying the provider's reason, so the kind
\* of the error tells the two apart.
C6_AppleFailureShapes ==
    \A g \in Procs :
        Done(g, "SendApplePush") =>
            \A i \in 1..Len(call[g].log) :
                LET e == call[g].log[i] IN
                e.submitted =>
                    /\ e.answer.err # Nil =>
                            /\ call[g].err = e.answer.err
                            /\ call[g].err.kind # "PushNotificationDeliveryFailed"
                    /\ (e.answer.err = Nil /\ ~e.answer.sent) =>
                            call[g].err = PushNotificationDeliveryFailed(
                                            Err("errorString", e.answer.reason))

\* C6, amended: SendApplePush wraps both failures of the submit in a
\* PushNotificationDeliveryFailed: a transport error of the submit is carried
\* as its Err, a response that was not sent is carried as an error made of
\* the provider's reason; the two differ in the wrapped error, not in the kind.
\* Only a failure to construct the client is returned as it is.
C6_AppleFailuresWrapped ==
    \A g \in Procs :
        Done(g, "SendApplePush") =>
            /\ Len(call[g].log) = 1
            /\ LET e == call[g].log[1] IN
               /\ call[g].err = e.err
               /\ (e.submitted /\ e.answer.err # Nil) =>
                    /\ e.err = PushNotificationDeliveryFailed(e.answer.err)
                    /\ e.err.kind = "PushNotificationDeliveryFailed"
                    /\ e.err.inner = e.answer.err.kind
               /\ (e.submitted /\ e.answer.err = Nil /\ ~e.answer.sent) =>
                    /\ e.err.kind = "PushNotificationDeliveryFailed"
                    /\ e.err.inner = "errorString"
                    /\ e.err.msg = e.answer.reason
               /\ (e.submitted /\ e.answer.err = Nil /\ e.answer.sent) =>
                    e.err = Nil
               /\ ~e.submitted => e.err = ErrAuthKey

C6_Witness ==
    \E g \in Procs :
        /\ Done(g, "SendApplePush")
        /\ Len(call[g].log) = 1
        /\ call[g].log[1].submitted
        /\ call[g].log[1].answer.err = ErrTransport
        /\ call[g].err.kind = "PushNotificationDeliveryFailed"
        /\ call[g].err.inner = "transport"

\* C7: over calls that do not overlap, each provider's client is constructed
\* at most once; the cached field, once set, keeps that handle, and every
\* send of that provider submits through it.
C7_ConstructedOnce ==
    /\ \A p \in Providers :
        /\ built[p] <= 1
        /\ Cached(p).id = built[p]
    /\ \A g \in Procs : \A i \in 1..Len(call[g].log) :
            call[g].log[i].submitted =>
                /\ call[g].log[i].handle # NilHandle
                /\ call[g].log[i].handle = Cached(call[g].log[i].provider)
                /\ call[g].log[i].visible

C7_Witness ==
    \E g \in Procs :
        /\ Done(g, "SendUserPush")
        /\ Len(call[g].log) = 2
        /\ call[g].log[1].provider = "apns"
        /\ call[g].log[2].provider = "apns"
        /\ call[g].log[2].submitted
        /\ call[g].log[2].handle.by # g
        /\ built["apns"] = 1

\* C8: under any interleaving of concurrent sends, each provider's client is
\* constructed at most once.
C8_ConstructedOnceConcurrent == \A p \in Providers : built[p] <= 1

\* C9: when first calls race, every send that got its client submits through
\* a handle that is not nil and is seen fully constructed; a cached field
\* that is not nil never becomes nil; and when all calls have returned the
\* cached field holds one of the constructed handles.
C9_BenignRace ==
    [][/\ \A g \in Procs : \A i \in 1..Len(call'[g].log) :
            call'[g].log[i].submitted =>
                /\ call'[g].log[i].handle # NilHandle
                /\ call'[g].log[i].visible
       /\ \A p \in Providers :
            /\ Cached(p) # NilHandle => Cached(p)' # NilHandle
            /\ ((\A g \in Procs : call'[g].pc = "idle") /\ built'[p] > 0) =>
                    Cached(p)'.id \in 1..built'[p]]_vars

ConstructErrors(p) == IF p = "apns" THEN {ErrAuthKey} ELSE {ErrNewApp, ErrMessaging}

\* C10: when construction of a provider client fails, the send returns the
\* construction error as it is, submits nothing, leaves that provider's
\* cached field nil and the other's unchanged, and the next send of that
\* provider constructs again.
C10_ConstructionFailure ==
    [][\A g \in Procs :
        /\ \A p \in Providers :
            (call[g].pc = (IF p = "apns" THEN "newAPNS" ELSE "newFCM")
                /\ call'[g] # call[g]
                /\ call'[g].pc \notin {"pushAPNS", "sendFCM"}) =>
                LET e == call'[g].log[Len(call'[g].log)] IN
                /\ Len(call'[g].log) = Len(call[g].log) + 1
                /\ e.provider = p
                /\ ~e.submitted
                /\ e.err \in ConstructErrors(p)
                /\ call'[g].pc = "done"
                /\ call'[g].err = e.err
                /\ Cached(p)' = NilHandle
                /\ apnsClient' = apnsClient
                /\ fcmClient' = fcmClient
                /\ built' = built
        /\ (call[g].pc = "getAPNS" /\ call'[g] # call[g] /\ built["apns"] = 0) =>
                call'[g].pc = "newAPNS"
        /\ (call[g].pc = "getFCM" /\ call'[g] # call[g] /\ built["fcm"] = 0) =>
                call'[g].pc = "newFCM"]_vars

C10_Witness ==
    \E g \in Procs :
        /\ Done(g, "SendUserPush")
        /\ Len(call[g].log) = 2
        /\ call[g].log[1].submitted
        /\ call[g].log[2].provider = "apns"
        /\ call[g].log[2].err = ErrAuthKey
        /\ apnsClient = NilHandle
        /\ fcmClient # NilHandle

=============================================================================
